---- MODULE Spec2Model ----
(***************************************************************************)
(* LOOLWebSocket (wsd/LOOLWebSocket.hpp): a Poco::Net::WebSocket whose     *)
(* receiveFrame and sendFrame are serialised by two mutexes, that answers  *)
(* PING frames with PONG frames, ignores PONG frames, and announces large  *)
(* messages with a "nextmessage: size=<N>" frame.                          *)
(*                                                                         *)
(* Every thread runs one call of receiveFrame or sendFrame; the steps of a *)
(* call are the places where it touches the mutexes or the transport.      *)
(* The transport is the base class: a queue of frames waiting to be read   *)
(* (inbox) and the list of frames written so far (wire).                   *)
(***************************************************************************)
EXTENDS Integers, Sequences, FiniteSets

\* ---------------------------------------------------------------- bounds
NumThreads == 2
MaxFrames == 2

\* ------------------------------------------------------------- constants
\* Poco::Net::WebSocket frame flags and opcodes, as used by the wrapper.
FRAME_FLAG_FIN == 128
FRAME_OP_CONT == 0
FRAME_OP_TEXT == 1
FRAME_OP_BINARY == 2
FRAME_OP_PING == 9
FRAME_OP_PONG == 10
FRAME_OP_BITMASK == 15
FRAME_TEXT == FRAME_FLAG_FIN + FRAME_OP_TEXT
FRAME_BINARY == FRAME_FLAG_FIN + FRAME_OP_BINARY

\* Common.hpp is not part of the sources at hand; the threshold is the one
\* the specification's scenario uses.
LARGE_MESSAGE_SIZE == 1000

Threads == 1..NumThreads
Free == 0

\* ------------------------------------------------------- pure functions
\* flags & WebSocket::FRAME_OP_BITMASK (the mask is 2^4 - 1).
OpBits(f) == f % (FRAME_OP_BITMASK + 1)

\* == WebSocket::FRAME_OP_PING
IsPing(f) == OpBits(f) = FRAME_OP_PING

\* Mutant: the flags are compared with the opcode without masking them.
IsPongNoMask(f) == f = FRAME_OP_PONG

\* == WebSocket::FRAME_OP_PONG
IsPong(f) == OpBits(f) = FRAME_OP_PONG

\* Mutant: the echo is sent as a bare PONG opcode, without FRAME_FLAG_FIN.
PongFlagsNoFin == FRAME_OP_PONG

\* static_cast<int>(WebSocket::FRAME_FLAG_FIN) | WebSocket::FRAME_OP_PONG
PongFlags == FRAME_FLAG_FIN + FRAME_OP_PONG

\* std::to_string(length) for length >= 0, as ASCII codes.
RECURSIVE to_string(_)
to_string(k) == IF k < 10 THEN <<48 + k>> ELSE to_string(k \div 10) \o <<48 + (k % 10)>>

\* "nextmessage: size=" as ASCII codes.
NextMessagePrefix ==
    <<110, 101, 120, 116, 109, 101, 115, 115, 97, 103, 101, 58, 32, 115, 105, 122, 101, 61>>

\* Mutant: a blank slips in between "size=" and the number.
NextMessageWithBlank(length) == NextMessagePrefix \o <<32>> \o to_string(length)

\* const std::string nextmessage = "nextmessage: size=" + std::to_string(length);
NextMessage(length) == NextMessagePrefix \o to_string(length)

\* if (length >= LARGE_MESSAGE_SIZE)
IsLarge(length) == length >= LARGE_MESSAGE_SIZE

\* ------------------------------------------------------------ the inputs
\* What one underlying receiveFrame call can yield: a frame of n >= 0 payload
\* bytes with its flags, or a failure (n < 0) that leaves some value in flags.
ReadOutcomes ==
    { [n |-> 2, flags |-> FRAME_TEXT, data |-> <<65, 66>>],
      [n |-> 1, flags |-> FRAME_FLAG_FIN + FRAME_OP_PING, data |-> <<65>>],
      [n |-> 0, flags |-> FRAME_OP_PING, data |-> <<>>],
      [n |-> 1, flags |-> FRAME_FLAG_FIN + FRAME_OP_PONG, data |-> <<66>>],
      [n |-> 0, flags |-> FRAME_OP_CONT, data |-> <<>>],
      [n |-> -1, flags |-> FRAME_TEXT, data |-> <<>>] }

\* The (length, flags) pairs sendFrame is called with.
SendCalls ==
    { <<LARGE_MESSAGE_SIZE - 1, FRAME_TEXT>>,
      <<LARGE_MESSAGE_SIZE, FRAME_BINARY>> }

\* What the underlying sendFrame may report for a frame of `len` bytes: all of
\* it or a part of it, or a failure for an empty frame.
WriteResults(len) == IF len > 0 THEN {len, len - 1} ELSE {0, -1}

\* The caller's buffer of a sendFrame call, named by the calling thread.
AppBuffer(t) == <<t>>

VARIABLES
    pc,          \* where each thread is in its call
    kind,        \* "none", "recv" or "send": the call the thread runs
    length,      \* sendFrame: the length argument
    sflags,      \* sendFrame: the flags argument
    n,           \* receiveFrame: the last count read
    flags,       \* receiveFrame: the caller's flags (an out parameter)
    buffer,      \* receiveFrame: the caller's buffer, its first n bytes
    ret,         \* the value the call returned
    hist,        \* the underlying calls the call has made, in order
    mutexRead,   \* _mutexRead: Free or the thread that holds it
    mutexWrite,  \* _mutexWrite: Free or the thread that holds it
    inbox,       \* frames the transport holds, not yet read
    arrived,     \* the number of frames that have arrived
    wire         \* the frames written to the transport, in order

vars == <<pc, kind, length, sflags, n, flags, buffer, ret, hist,
          mutexRead, mutexWrite, inbox, arrived, wire>>

locals == <<kind, length, sflags, n, flags, buffer, ret>>

NoRet == -2

Ev(ev, cnt, fl, data, res) == [ev |-> ev, n |-> cnt, fl |-> fl, data |-> data, res |-> res]

Log(t, e) == hist' = [hist EXCEPT ![t] = Append(@, e)]

\* One frame handed to the underlying sendFrame.
Written(t, role, data, len, fl, res) ==
    [by |-> t, role |-> role, data |-> data, len |-> len, flags |-> fl, res |-> res]

\* The calls a thread can be in: receiveFrame, or sendFrame with its arguments.
Calls ==
    {[kind |-> "recv", length |-> 0, flags |-> 0]}
    \cup {[kind |-> "send", length |-> c[1], flags |-> c[2]] : c \in SendCalls}

\* Threads are interchangeable: the calls are dealt out in one order only,
\* which leaves out no behaviour of the object.
Rank(c) == IF c.kind = "recv" THEN 0 ELSE c.length

Ordered(cs) == \A t \in Threads, u \in Threads : t < u => Rank(cs[t]) <= Rank(cs[u])

\* Every thread is at the start of its call and has touched nothing yet.
Init ==
    /\ \E cs \in [Threads -> Calls] :
        /\ Ordered(cs)
        /\ kind = [t \in Threads |-> cs[t].kind]
        /\ length = [t \in Threads |-> cs[t].length]
        /\ sflags = [t \in Threads |-> cs[t].flags]
        /\ pc = [t \in Threads |-> IF cs[t].kind = "recv" THEN "poll" ELSE "lockWrite"]
    /\ n = [t \in Threads |-> 0]
    /\ flags = [t \in Threads |-> 0]
    /\ buffer = [t \in Threads |-> <<>>]
    /\ ret = [t \in Threads |-> NoRet]
    /\ hist = [t \in Threads |-> <<>>]
    /\ mutexRead = Free
    /\ mutexWrite = Free
    /\ inbox = <<>>
    /\ arrived = 0
    /\ wire = <<>>

\* ------------------------------------------------------------ transport
\* A frame (or a read failure) becomes available to the underlying read.
\* Frames that arrive when no receiveFrame call is left to see them are left out.
Arrive(f) ==
    /\ arrived < MaxFrames
    /\ \E t \in Threads : kind[t] = "recv" /\ pc[t] # "done"
    /\ arrived' = arrived + 1
    /\ inbox' = Append(inbox, [id |-> arrived + 1, n |-> f.n, flags |-> f.flags, data |-> f.data])
    /\ UNCHANGED <<pc, locals, hist, mutexRead, mutexWrite, wire>>

\* ---------------------------------------------------------- receiveFrame
\* poll(waitTime, SELECT_READ): readable, or the wait time is over.
Readable == inbox # <<>>

\* Mutant: a poll that is not readable ends the call with 0 instead of -1.
PollReturnsZero(t) ==
    /\ pc[t] = "poll"
    /\ IF Readable
       THEN /\ pc' = [pc EXCEPT ![t] = "lockRead"]
            /\ Log(t, Ev("poll", 0, 0, <<>>, 1))
            /\ ret' = ret
       ELSE /\ pc' = [pc EXCEPT ![t] = "done"]
            /\ Log(t, Ev("poll", 0, 0, <<>>, 0))
            /\ ret' = [ret EXCEPT ![t] = 0]
    /\ UNCHANGED <<kind, length, sflags, n, flags, buffer,
                   mutexRead, mutexWrite, inbox, arrived, wire>>

\* Mutant: the poll has no time limit: it waits until the transport is readable.
PollBlocks(t) ==
    /\ pc[t] = "poll"
    /\ Readable
    /\ pc' = [pc EXCEPT ![t] = "lockRead"]
    /\ Log(t, Ev("poll", 0, 0, <<>>, 1))
    /\ UNCHANGED <<kind, length, sflags, n, flags, buffer, ret,
                   mutexRead, mutexWrite, inbox, arrived, wire>>

\* while (poll(...)) ... return -1;
Poll(t) ==
    /\ pc[t] = "poll"
    /\ IF Readable
       THEN /\ pc' = [pc EXCEPT ![t] = "lockRead"]
            /\ Log(t, Ev("poll", 0, 0, <<>>, 1))
            /\ ret' = ret
       ELSE /\ pc' = [pc EXCEPT ![t] = "done"]
            /\ Log(t, Ev("poll", 0, 0, <<>>, 0))
            /\ ret' = [ret EXCEPT ![t] = -1]
    /\ UNCHANGED <<kind, length, sflags, n, flags, buffer,
                   mutexRead, mutexWrite, inbox, arrived, wire>>

\* Mutant: the underlying read is entered without waiting for _mutexRead.
LockReadNoMutex(t) ==
    /\ pc[t] = "lockRead"
    /\ mutexRead' = t
    /\ pc' = [pc EXCEPT ![t] = "read"]
    /\ UNCHANGED <<locals, hist, mutexWrite, inbox, arrived, wire>>

\* std::unique_lock<std::mutex> lockRead(_mutexRead);
LockRead(t) ==
    /\ pc[t] = "lockRead"
    /\ mutexRead = Free
    /\ mutexRead' = t
    /\ pc' = [pc EXCEPT ![t] = "read"]
    /\ UNCHANGED <<locals, hist, mutexWrite, inbox, arrived, wire>>

\* Mutant: lockRead.unlock() is missing, so _mutexRead stays locked after the read.
ReadKeepsLock(t) ==
    /\ pc[t] = "read"
    /\ inbox # <<>>
    /\ LET f == Head(inbox) IN
        /\ n' = [n EXCEPT ![t] = f.n]
        /\ flags' = [flags EXCEPT ![t] = f.flags]
        /\ buffer' = [buffer EXCEPT ![t] = IF f.n >= 0 THEN f.data ELSE @]
        /\ Log(t, Ev("read", f.n, f.flags, f.data, f.id))
        /\ IF IsPing(f.flags)
           THEN /\ pc' = [pc EXCEPT ![t] = "lockPong"]
                /\ ret' = ret
           ELSE IF IsPong(f.flags)
           THEN /\ pc' = [pc EXCEPT ![t] = "poll"]
                /\ ret' = ret
           ELSE /\ pc' = [pc EXCEPT ![t] = "done"]
                /\ ret' = [ret EXCEPT ![t] = f.n]
    /\ inbox' = Tail(inbox)
    /\ mutexRead' = mutexRead
    /\ UNCHANGED <<kind, length, sflags, mutexWrite, arrived, wire>>

\* Mutant: the last branch lacks its return, so a data frame is dropped and
\* the loop goes on.
ReadLoopsOnData(t) ==
    /\ pc[t] = "read"
    /\ inbox # <<>>
    /\ LET f == Head(inbox) IN
        /\ n' = [n EXCEPT ![t] = f.n]
        /\ flags' = [flags EXCEPT ![t] = f.flags]
        /\ buffer' = [buffer EXCEPT ![t] = IF f.n >= 0 THEN f.data ELSE @]
        /\ Log(t, Ev("read", f.n, f.flags, f.data, f.id))
        /\ pc' = [pc EXCEPT ![t] = IF IsPing(f.flags) THEN "lockPong" ELSE "poll"]
        /\ ret' = ret
    /\ inbox' = Tail(inbox)
    /\ mutexRead' = Free
    /\ UNCHANGED <<kind, length, sflags, mutexWrite, arrived, wire>>

\* n = Poco::Net::WebSocket::receiveFrame(buffer, length, flags); lockRead.unlock();
\* and the three branches on (flags & FRAME_OP_BITMASK) that follow.
\* The underlying read waits while the transport holds no frame.
Read(t) ==
    /\ pc[t] = "read"
    /\ inbox # <<>>
    /\ LET f == Head(inbox) IN
        /\ n' = [n EXCEPT ![t] = f.n]
        /\ flags' = [flags EXCEPT ![t] = f.flags]
        /\ buffer' = [buffer EXCEPT ![t] = IF f.n >= 0 THEN f.data ELSE @]
        /\ Log(t, Ev("read", f.n, f.flags, f.data, f.id))
        /\ IF IsPing(f.flags)
           THEN /\ pc' = [pc EXCEPT ![t] = "lockPong"]
                /\ ret' = ret
           ELSE IF IsPong(f.flags)
           THEN /\ pc' = [pc EXCEPT ![t] = "poll"]
                /\ ret' = ret
           ELSE /\ pc' = [pc EXCEPT ![t] = "done"]
                /\ ret' = [ret EXCEPT ![t] = f.n]
    /\ inbox' = Tail(inbox)
    /\ mutexRead' = Free
    /\ UNCHANGED <<kind, length, sflags, mutexWrite, arrived, wire>>

\* Mutant: the echo is written without waiting for _mutexWrite.
LockPongNoMutex(t) ==
    /\ pc[t] = "lockPong"
    /\ mutexWrite' = t
    /\ pc' = [pc EXCEPT ![t] = "pong"]
    /\ UNCHANGED <<locals, hist, mutexRead, inbox, arrived, wire>>

\* std::unique_lock<std::mutex> lock(_mutexWrite);   (the PING branch)
LockPong(t) ==
    /\ pc[t] = "lockPong"
    /\ mutexWrite = Free
    /\ mutexWrite' = t
    /\ pc' = [pc EXCEPT ![t] = "pong"]
    /\ UNCHANGED <<locals, hist, mutexRead, inbox, arrived, wire>>

\* Mutant: the lock of the echo lives outside the loop, so after a complete
\* echo _mutexWrite stays locked while the call polls again.
PongHoldsLock(t, r) ==
    /\ pc[t] = "pong"
    /\ r \in WriteResults(n[t])
    /\ wire' = Append(wire, Written(t, "pong", buffer[t], n[t], PongFlags, r))
    /\ Log(t, Ev("write", n[t], PongFlags, buffer[t], r))
    /\ IF r # n[t]
       THEN /\ pc' = [pc EXCEPT ![t] = "done"]
            /\ ret' = [ret EXCEPT ![t] = -1]
            /\ mutexWrite' = Free
       ELSE /\ pc' = [pc EXCEPT ![t] = "poll"]
            /\ ret' = ret
            /\ mutexWrite' = mutexWrite
    /\ UNCHANGED <<kind, length, sflags, n, flags, buffer, mutexRead, inbox, arrived>>

\* Mutant: the return on a failed echo leaves _mutexWrite locked.
PongFailureKeepsLock(t, r) ==
    /\ pc[t] = "pong"
    /\ r \in WriteResults(n[t])
    /\ wire' = Append(wire, Written(t, "pong", buffer[t], n[t], PongFlags, r))
    /\ Log(t, Ev("write", n[t], PongFlags, buffer[t], r))
    /\ IF r # n[t]
       THEN /\ pc' = [pc EXCEPT ![t] = "done"]
            /\ ret' = [ret EXCEPT ![t] = -1]
            /\ mutexWrite' = mutexWrite
       ELSE /\ pc' = [pc EXCEPT ![t] = "poll"]
            /\ ret' = ret
            /\ mutexWrite' = Free
    /\ UNCHANGED <<kind, length, sflags, n, flags, buffer, mutexRead, inbox, arrived>>

\* Mutant: a short echo is not noticed, and the loop goes on.
PongIgnoresShort(t, r) ==
    /\ pc[t] = "pong"
    /\ r \in WriteResults(n[t])
    /\ wire' = Append(wire, Written(t, "pong", buffer[t], n[t], PongFlags, r))
    /\ Log(t, Ev("write", n[t], PongFlags, buffer[t], r))
    /\ mutexWrite' = Free
    /\ pc' = [pc EXCEPT ![t] = "poll"]
    /\ ret' = ret
    /\ UNCHANGED <<kind, length, sflags, n, flags, buffer, mutexRead, inbox, arrived>>

\* if (sendFrame(buffer, n, FIN | PONG) != n) return -1;   and the end of the
\* block, which releases the lock.
Pong(t, r) ==
    /\ pc[t] = "pong"
    /\ r \in WriteResults(n[t])
    /\ wire' = Append(wire, Written(t, "pong", buffer[t], n[t], PongFlags, r))
    /\ Log(t, Ev("write", n[t], PongFlags, buffer[t], r))
    /\ mutexWrite' = Free
    /\ IF r # n[t]
       THEN /\ pc' = [pc EXCEPT ![t] = "done"]
            /\ ret' = [ret EXCEPT ![t] = -1]
       ELSE /\ pc' = [pc EXCEPT ![t] = "poll"]
            /\ ret' = ret
    /\ UNCHANGED <<kind, length, sflags, n, flags, buffer, mutexRead, inbox, arrived>>

\* ------------------------------------------------------------- sendFrame
\* Mutant: one mutex for both directions: a send also waits for _mutexRead.
LockWriteOneMutex(t) ==
    /\ pc[t] = "lockWrite"
    /\ mutexWrite = Free
    /\ mutexRead = Free
    /\ mutexWrite' = t
    /\ pc' = [pc EXCEPT ![t] = IF IsLarge(length[t]) THEN "preamble" ELSE "payload"]
    /\ UNCHANGED <<locals, hist, mutexRead, inbox, arrived, wire>>

\* std::unique_lock<std::mutex> lock(_mutexWrite); if (length >= LARGE_MESSAGE_SIZE)
LockWrite(t) ==
    /\ pc[t] = "lockWrite"
    /\ mutexWrite = Free
    /\ mutexWrite' = t
    /\ pc' = [pc EXCEPT ![t] = IF IsLarge(length[t]) THEN "preamble" ELSE "payload"]
    /\ UNCHANGED <<locals, hist, mutexRead, inbox, arrived, wire>>

\* Mutant: the write lock is given up between the preamble and the payload.
PreambleUnlocks(t, r) ==
    /\ pc[t] = "preamble"
    /\ LET nextmessage == NextMessage(length[t])
           size == Len(nextmessage)
       IN /\ r \in WriteResults(size)
          /\ wire' = Append(wire, Written(t, "preamble", nextmessage, size, FRAME_TEXT, r))
          /\ Log(t, Ev("write", size, FRAME_TEXT, nextmessage, r))
          /\ mutexWrite' = Free
          /\ IF r = size
             THEN /\ pc' = [pc EXCEPT ![t] = "payload"]
                  /\ ret' = ret
             ELSE /\ pc' = [pc EXCEPT ![t] = "done"]
                  /\ ret' = [ret EXCEPT ![t] = -1]
    /\ UNCHANGED <<kind, length, sflags, n, flags, buffer, mutexRead, inbox, arrived>>

\* Mutant: the early return on a failed preamble leaves _mutexWrite locked.
PreambleKeepsLock(t, r) ==
    /\ pc[t] = "preamble"
    /\ LET nextmessage == NextMessage(length[t])
           size == Len(nextmessage)
       IN /\ r \in WriteResults(size)
          /\ wire' = Append(wire, Written(t, "preamble", nextmessage, size, FRAME_TEXT, r))
          /\ Log(t, Ev("write", size, FRAME_TEXT, nextmessage, r))
          /\ mutexWrite' = mutexWrite
          /\ IF r = size
             THEN /\ pc' = [pc EXCEPT ![t] = "payload"]
                  /\ ret' = ret
             ELSE /\ pc' = [pc EXCEPT ![t] = "done"]
                  /\ ret' = [ret EXCEPT ![t] = -1]
    /\ UNCHANGED <<kind, length, sflags, n, flags, buffer, mutexRead, inbox, arrived>>

\* if (sendFrame(nextmessage.data(), size) == size) ... else return -1;
Preamble(t, r) ==
    /\ pc[t] = "preamble"
    /\ LET nextmessage == NextMessage(length[t])
           size == Len(nextmessage)
       IN /\ r \in WriteResults(size)
          /\ wire' = Append(wire, Written(t, "preamble", nextmessage, size, FRAME_TEXT, r))
          /\ Log(t, Ev("write", size, FRAME_TEXT, nextmessage, r))
          /\ IF r = size
             THEN /\ pc' = [pc EXCEPT ![t] = "payload"]
                  /\ UNCHANGED <<ret, mutexWrite>>
             ELSE /\ pc' = [pc EXCEPT ![t] = "done"]
                  /\ ret' = [ret EXCEPT ![t] = -1]
                  /\ mutexWrite' = Free
    /\ UNCHANGED <<kind, length, sflags, n, flags, buffer, mutexRead, inbox, arrived>>

\* Mutant: the requested length is returned instead of the count written.
PayloadReturnsLength(t, r) ==
    /\ pc[t] = "payload"
    /\ r \in WriteResults(length[t])
    /\ wire' = Append(wire, Written(t, "payload", AppBuffer(t), length[t], sflags[t], r))
    /\ Log(t, Ev("write", length[t], sflags[t], AppBuffer(t), r))
    /\ mutexWrite' = Free
    /\ pc' = [pc EXCEPT ![t] = "done"]
    /\ ret' = [ret EXCEPT ![t] = length[t]]
    /\ UNCHANGED <<kind, length, sflags, n, flags, buffer, mutexRead, inbox, arrived>>

\* result = sendFrame(buffer, length, flags); lock.unlock(); ... return result;
Payload(t, r) ==
    /\ pc[t] = "payload"
    /\ r \in WriteResults(length[t])
    /\ wire' = Append(wire, Written(t, "payload", AppBuffer(t), length[t], sflags[t], r))
    /\ Log(t, Ev("write", length[t], sflags[t], AppBuffer(t), r))
    /\ mutexWrite' = Free
    /\ pc' = [pc EXCEPT ![t] = "done"]
    /\ ret' = [ret EXCEPT ![t] = r]
    /\ UNCHANGED <<kind, length, sflags, n, flags, buffer, mutexRead, inbox, arrived>>

\* The counts the model lets an underlying write report.
AllResults ==
    UNION {WriteResults(f.n) : f \in ReadOutcomes}
    \cup UNION {WriteResults(c[1]) \cup WriteResults(Len(NextMessage(c[1]))) : c \in SendCalls}

Next ==
    \/ \E f \in ReadOutcomes : Arrive(f)
    \/ \E t \in Threads : Poll(t)
    \/ \E t \in Threads : LockRead(t)
    \/ \E t \in Threads : Read(t)
    \/ \E t \in Threads : LockPong(t)
    \/ \E t \in Threads : \E r \in AllResults : Pong(t, r)
    \/ \E t \in Threads : LockWrite(t)
    \/ \E t \in Threads : \E r \in AllResults : Preamble(t, r)
    \/ \E t \in Threads : \E r \in AllResults : Payload(t, r)

Spec == Init /\ [][Next]_vars

\* ------------------------------------------- when every call comes back
\* An underlying read that finds no frame comes back all the same, with the
\* count 0 of a closed connection; the else branch of line 138 returns it.
ReadReturnsEmpty(t) ==
    /\ pc[t] = "read"
    /\ inbox = <<>>
    /\ n' = [n EXCEPT ![t] = 0]
    /\ flags' = [flags EXCEPT ![t] = FRAME_OP_CONT]
    /\ Log(t, Ev("read", 0, FRAME_OP_CONT, <<>>, 0))
    /\ pc' = [pc EXCEPT ![t] = "done"]
    /\ ret' = [ret EXCEPT ![t] = 0]
    /\ mutexRead' = Free
    /\ UNCHANGED <<kind, length, sflags, buffer, mutexWrite, inbox, arrived, wire>>

\* The steps of one thread.
ThreadStep(t) ==
    \/ Poll(t)
    \/ LockRead(t)
    \/ Read(t)
    \/ ReadReturnsEmpty(t)
    \/ LockPong(t)
    \/ \E r \in AllResults : Pong(t, r)
    \/ LockWrite(t)
    \/ \E r \in AllResults : Preamble(t, r)
    \/ \E r \in AllResults : Payload(t, r)

LiveNext ==
    \/ \E f \in ReadOutcomes : Arrive(f)
    \/ \E t \in Threads : ThreadStep(t)

\* Every thread that can take a step takes one in the end.
LiveSpec == Init /\ [][LiveNext]_vars /\ \A t \in Threads : WF_vars(ThreadStep(t))

\* ------------------------------------------------------------ a scenario
\* sendFrame(buf, 1500, FRAME_TEXT) by the first thread, next to any calls of
\* the other threads, on a transport that accepts every write in full.
ScenarioSender == 1

ScenarioLength == 1500

ScenarioInit ==
    /\ \E cs \in [Threads -> Calls \cup {[kind |-> "send", length |-> ScenarioLength,
                                         flags |-> FRAME_TEXT]}] :
        /\ cs[ScenarioSender].kind = "send"
        /\ cs[ScenarioSender].length = ScenarioLength
        /\ \A t \in Threads \ {ScenarioSender} : cs[t] \in Calls
        /\ kind = [t \in Threads |-> cs[t].kind]
        /\ length = [t \in Threads |-> cs[t].length]
        /\ sflags = [t \in Threads |-> cs[t].flags]
        /\ pc = [t \in Threads |-> IF cs[t].kind = "recv" THEN "poll" ELSE "lockWrite"]
    /\ n = [t \in Threads |-> 0]
    /\ flags = [t \in Threads |-> 0]
    /\ buffer = [t \in Threads |-> <<>>]
    /\ ret = [t \in Threads |-> NoRet]
    /\ hist = [t \in Threads |-> <<>>]
    /\ mutexRead = Free
    /\ mutexWrite = Free
    /\ inbox = <<>>
    /\ arrived = 0
    /\ wire = <<>>

ScenarioNext ==
    \/ \E f \in ReadOutcomes : Arrive(f)
    \/ \E t \in Threads : Poll(t)
    \/ \E t \in Threads : LockRead(t)
    \/ \E t \in Threads : Read(t)
    \/ \E t \in Threads : LockPong(t)
    \/ \E t \in Threads : Pong(t, n[t])
    \/ \E t \in Threads : LockWrite(t)
    \/ \E t \in Threads : Preamble(t, Len(NextMessage(length[t])))
    \/ \E t \in Threads : Payload(t, length[t])

ScenarioSpec == ScenarioInit /\ [][ScenarioNext]_vars

\* ================================================================ claims
\* What the claims say about a call is read off hist (the underlying calls
\* it made, in order), wire (the frames written, in order) and the place the
\* thread is at.

Receivers == {t \in Threads : kind[t] = "recv"}
Senders == {t \in Threads : kind[t] = "send"}

\* The thread is inside an underlying sendFrame.
InWrite(t) == pc[t] \in {"preamble", "payload", "pong"}

Returned(t) == pc[t] = "done"

\* The opcode of a flags value and its FIN bit, by the protocol's layout.
Opcode(f) == f % 16
HasFin(f) == (f \div 128) % 2 = 1
Control(f) == Opcode(f) \in {FRAME_OP_PING, FRAME_OP_PONG}

\* The decimal number a sequence of ASCII digits spells.
RECURSIVE Decimal(_)
Decimal(s) ==
    IF s = <<>> THEN 0
    ELSE 10 * Decimal(SubSeq(s, 1, Len(s) - 1)) + (s[Len(s)] - 48)

\* The frames thread t has written, as positions of wire.
WrittenBy(t, role) == {i \in 1..Len(wire) : wire[i].by = t /\ wire[i].role = role}

\* C1: at most one thread is inside an underlying frame write at any time, be
\* it the preamble or payload write of a send or the PONG echo of a receive.
C1_OneWriterAtATime ==
    \A t \in Threads, u \in Threads : (t # u /\ InWrite(t)) => ~InWrite(u)

\* A PONG echo is being written while a send waits for the write lock.
C1_Witness ==
    \E t \in Threads, u \in Threads :
        /\ pc[t] = "pong"
        /\ pc[u] = "lockWrite"
        /\ mutexWrite = t

\* C2: a preamble frame is written only by a send of L >= threshold, once, and
\* announces L; when fully written it is followed at once by the same send's
\* payload frame; a payload of L >= threshold is never written without it.
C2_PreambleThenPayload ==
    /\ \A i \in 1..Len(wire) :
        wire[i].role = "preamble" =>
            LET t == wire[i].by IN
            /\ kind[t] = "send"
            /\ length[t] >= LARGE_MESSAGE_SIZE
            /\ WrittenBy(t, "preamble") = {i}
            /\ SubSeq(wire[i].data, 1, 18) = NextMessagePrefix
            /\ Decimal(SubSeq(wire[i].data, 19, Len(wire[i].data))) = length[t]
            /\ wire[i].len = Len(wire[i].data)
            /\ wire[i].res = wire[i].len =>
                IF i = Len(wire)
                THEN pc[t] = "payload"
                ELSE /\ wire[i + 1].by = t
                     /\ wire[i + 1].role = "payload"
                     /\ wire[i + 1].len = length[t]
    /\ \A i \in 1..Len(wire) :
        wire[i].role = "payload" =>
            IF wire[i].len >= LARGE_MESSAGE_SIZE
            THEN /\ i > 1
                 /\ wire[i - 1].by = wire[i].by
                 /\ wire[i - 1].role = "preamble"
                 /\ wire[i - 1].res = wire[i - 1].len
            ELSE WrittenBy(wire[i].by, "preamble") = {}

\* A large send has returned after writing its payload, and another thread
\* has written to the transport as well.
C2_Witness ==
    \E t \in Senders :
        /\ length[t] >= LARGE_MESSAGE_SIZE
        /\ Returned(t)
        /\ WrittenBy(t, "payload") # {}
        /\ \E u \in Threads \ {t} : \E i \in 1..Len(wire) : wire[i].by = u

\* The underlying calls of thread t's call, and the one after position i.
Events(t) == 1..Len(hist[t])
IsLast(t, i) == i = Len(hist[t])

PingRead(e) == e.ev = "read" /\ Opcode(e.fl) = FRAME_OP_PING /\ e.n >= 0
PongRead(e) == e.ev = "read" /\ Opcode(e.fl) = FRAME_OP_PONG /\ e.n >= 0

\* C3: a receive that reads a PING frame of payload P and length n writes, as
\* its next underlying call, one PONG frame with FIN, payload P and length n;
\* after a complete echo it polls again and does not return; it never writes
\* a second echo for the same PING.
C3_PingEchoedOnce ==
    \A t \in Receivers : \A i \in Events(t) :
        PingRead(hist[t][i]) =>
            IF IsLast(t, i)
            THEN pc[t] \in {"lockPong", "pong"}
            ELSE LET w == hist[t][i + 1] IN
                 /\ w.ev = "write"
                 /\ Opcode(w.fl) = FRAME_OP_PONG
                 /\ HasFin(w.fl)
                 /\ w.data = hist[t][i].data
                 /\ w.n = hist[t][i].n
                 /\ Cardinality(WrittenBy(t, "pong")) =
                        Cardinality({j \in Events(t) : hist[t][j].ev = "write"})
                 /\ w.res = w.n =>
                        IF IsLast(t, i + 1)
                        THEN pc[t] = "poll"
                        ELSE hist[t][i + 2].ev = "poll"

\* The scenario of a PING "A" followed by a text frame: the receive has
\* echoed the PING and then returned the text frame's count.
C3_Witness ==
    \E t \in Receivers :
        /\ Returned(t)
        /\ Len(hist[t]) = 5
        /\ PingRead(hist[t][2])
        /\ hist[t][3].ev = "write"
        /\ hist[t][5].ev = "read"
        /\ ret[t] = 2

\* The last frame a call has read, if any.
LastRead(t) ==
    LET reads == {i \in Events(t) : hist[t][i].ev = "read"}
    IN IF reads = {} THEN 0 ELSE CHOOSE i \in reads : \A j \in reads : j <= i

\* A receive that read a frame that is neither PING nor PONG has returned
\* that frame's count, flags and payload.
DataFrameReturned(t) ==
    \A i \in Events(t) :
        (hist[t][i].ev = "read" /\ ~Control(hist[t][i].fl)) =>
            /\ IsLast(t, i)
            /\ ret[t] = hist[t][i].n
            /\ flags[t] = hist[t][i].fl
            /\ hist[t][i].n >= 0 => buffer[t] = hist[t][i].data

\* The caller's flags and buffer do not hold a control frame the call consumed.
NoControlFrameLeft(t) ==
    \A i \in Events(t) :
        (hist[t][i].ev = "read" /\ Control(hist[t][i].fl)) =>
            /\ flags[t] # hist[t][i].fl
            /\ hist[t][i].n > 0 => buffer[t] # hist[t][i].data

\* C4: a receive that read a frame that is neither PING nor PONG returns that
\* frame's count, flags and payload; and no receive returns with the count,
\* flags or buffer of a PING or PONG frame, also when it returns -1 after it
\* consumed a control frame.
C4_ControlNeverSurfaced ==
    \A t \in Receivers :
        Returned(t) => (DataFrameReturned(t) /\ NoControlFrameLeft(t))

\* C5: a receive that reads a PONG frame makes no underlying write for it,
\* does not take the write lock, does not return, and polls again.
C5_PongSwallowed ==
    \A t \in Receivers : \A i \in Events(t) :
        PongRead(hist[t][i]) =>
            IF IsLast(t, i)
            THEN /\ pc[t] = "poll"
                 /\ mutexWrite # t
                 /\ Cardinality(WrittenBy(t, "pong")) =
                        Cardinality({j \in Events(t) : PingRead(hist[t][j])})
            ELSE hist[t][i + 1].ev = "poll"

\* A receive has read a PONG frame and polled again after it.
C5_Witness ==
    \E t \in Receivers : \E i \in Events(t) :
        /\ PongRead(hist[t][i])
        /\ ~IsLast(t, i)
        /\ WrittenBy(t, "pong") = {}

\* C6: whenever the underlying read returns n <= 0, receive returns that n at
\* once, whatever the flags are: no PONG write, no write lock, no further poll.
C6_EmptyReadReturned ==
    \A t \in Receivers : \A i \in Events(t) :
        (hist[t][i].ev = "read" /\ hist[t][i].n <= 0) =>
            /\ IsLast(t, i)
            /\ Returned(t)
            /\ ret[t] = hist[t][i].n

\* C7: a send whose preamble write reports a count other than the preamble's
\* length returns -1, writes no payload frame and leaves the write lock free.
C7_PreambleFailure ==
    \A i \in 1..Len(wire) :
        (wire[i].role = "preamble" /\ wire[i].res # wire[i].len) =>
            LET t == wire[i].by IN
            /\ Returned(t)
            /\ ret[t] = -1
            /\ WrittenBy(t, "payload") = {}
            /\ Len(hist[t]) = 1
            /\ mutexWrite # t

\* A send's preamble failed, and another thread wrote to the transport after it.
C7_Witness ==
    \E i \in 1..Len(wire) :
        /\ wire[i].role = "preamble"
        /\ wire[i].res # wire[i].len
        /\ i < Len(wire)
        /\ wire[i + 1].by # wire[i].by

\* C8: a send writes its payload frame at most once and returns the count that
\* write reported, short or not, without the preamble's count added.
C8_PayloadCountReturned ==
    \A t \in Senders :
        /\ Cardinality(WrittenBy(t, "payload")) <= 1
        /\ \A i \in WrittenBy(t, "payload") :
            /\ Returned(t)
            /\ ret[t] = wire[i].res
            /\ wire[i].len = length[t]
        /\ (Returned(t) /\ WrittenBy(t, "payload") = {}) => ret[t] = -1

\* A large send whose payload write was short has returned.
C8_Witness ==
    \E t \in Senders : \E i \in WrittenBy(t, "payload") :
        /\ length[t] >= LARGE_MESSAGE_SIZE
        /\ wire[i].res < length[t]
        /\ Returned(t)

\* C9: a receive whose PONG echo reports a count other than the PING's length
\* returns -1 at once: no second echo, no further poll or read, and the write
\* lock is free after it.
C9_EchoFailure ==
    \A t \in Receivers : \A i \in Events(t) :
        (hist[t][i].ev = "write" /\ hist[t][i].res # hist[t][i].n) =>
            /\ IsLast(t, i)
            /\ Returned(t)
            /\ ret[t] = -1
            /\ mutexWrite # t

\* A PONG echo was short, and a send took the write lock after it.
C9_Witness ==
    \E t \in Receivers : \E i \in Events(t) : \E u \in Senders :
        /\ hist[t][i].ev = "write"
        /\ hist[t][i].res # hist[t][i].n
        /\ mutexWrite = u

\* C10: a receive whose poll reports not readable returns -1 with no read and
\* no write after that poll, and holds neither lock.
C10_PollTimeout ==
    \A t \in Receivers : \A i \in Events(t) :
        (hist[t][i].ev = "poll" /\ hist[t][i].res = 0) =>
            /\ IsLast(t, i)
            /\ Returned(t)
            /\ ret[t] = -1
            /\ mutexRead # t
            /\ mutexWrite # t

\* A receive swallowed a PONG, polled again and timed out.
C10_Witness ==
    \E t \in Receivers :
        /\ Returned(t)
        /\ Len(hist[t]) = 3
        /\ hist[t][3].ev = "poll"
        /\ hist[t][3].res = 0

\* The reads that consumed the frame that arrived as number id.
ReadersOf(id) ==
    UNION {{<<t, i>> : i \in {j \in 1..Len(hist[t]) :
                                hist[t][j].ev = "read" /\ hist[t][j].res = id}} :
           t \in Threads}

\* The frames that have arrived and wait in the transport.
Waiting == {inbox[k].id : k \in 1..Len(inbox)}

\* C11: every frame read from the transport is consumed by exactly one receive
\* call, and a frame that is neither PING nor PONG is returned to that caller:
\* only PING and PONG frames are consumed without being returned.
C11_NoDataFrameDropped ==
    /\ \A id \in 1..arrived :
        IF id \in Waiting
        THEN ReadersOf(id) = {}
        ELSE Cardinality(ReadersOf(id)) = 1
    /\ \A t \in Receivers : \A i \in Events(t) :
        (hist[t][i].ev = "read" /\ ~Control(hist[t][i].fl)) =>
            /\ IsLast(t, i)
            /\ Returned(t)
            /\ ret[t] = hist[t][i].n
            /\ hist[t][i].n >= 0 => buffer[t] = hist[t][i].data

\* Two receive calls have each consumed one of two frames: one swallowed a
\* control frame, the other returned the text frame.
C11_Witness ==
    \E t \in Receivers, u \in Receivers :
        /\ t # u
        /\ arrived = 2
        /\ inbox = <<>>
        /\ \E i \in Events(t) : hist[t][i].ev = "read" /\ Control(hist[t][i].fl)
        /\ Returned(u)
        /\ ret[u] = 2

\* The last underlying call the thread's call has made.
LastEv(t) == IF hist[t] = <<>> THEN "none" ELSE hist[t][Len(hist[t])].ev

\* The places where a call is not inside an underlying read or write.
OutsideIO == {"poll", "lockRead", "lockPong", "lockWrite", "done"}

\* C12 as claimed: a thread that holds a lock has made no underlying read or
\* write under it yet (the lock goes with the one call it covers), and no
\* thread holds a lock while it polls.
C12_OneCallPerLock ==
    \A t \in Threads :
        /\ mutexRead = t => (pc[t] = "read" /\ LastEv(t) = "poll")
        /\ mutexWrite = t => (InWrite(t) /\ LastEv(t) # "write")
        /\ pc[t] \in OutsideIO => (mutexRead # t /\ mutexWrite # t)

\* C12, amended: the read lock covers one underlying read, the write lock of
\* a PING echo covers one write, and the write lock of a send covers its
\* payload write and, for a length at or above the threshold, the preamble
\* write before it; no thread holds a lock while it polls.
C12_LockCoversCalls ==
    \A t \in Threads :
        /\ mutexRead = t => (pc[t] = "read" /\ LastEv(t) = "poll")
        /\ mutexWrite = t =>
            /\ InWrite(t)
            /\ LastEv(t) = "write" =>
                /\ kind[t] = "send"
                /\ length[t] >= LARGE_MESSAGE_SIZE
                /\ pc[t] = "payload"
                /\ Len(hist[t]) = 1
                /\ hist[t][1].res = hist[t][1].n
        /\ pc[t] \in OutsideIO => (mutexRead # t /\ mutexWrite # t)

\* A large send has written its preamble and still holds the write lock for
\* the payload, while a receive polls.
C12_Witness ==
    \E t \in Senders, u \in Receivers :
        /\ mutexWrite = t
        /\ pc[t] = "payload"
        /\ Len(hist[t]) = 1
        /\ pc[u] = "poll"
        /\ hist[u] # <<>>

\* C13: no thread holds the read lock and the write lock at once; a send never
\* holds the read lock, and a receive that holds or waits for the write lock
\* has released the read lock.
C13_NeverBothLocks ==
    \A t \in Threads :
        /\ ~(mutexRead = t /\ mutexWrite = t)
        /\ mutexRead = t => (kind[t] = "recv" /\ pc[t] = "read")
        /\ pc[t] \in {"lockWrite", "preamble", "payload", "lockPong", "pong"} => mutexRead # t

\* A receive writes its echo under the write lock while another receive is in
\* the underlying read under the read lock.
C13_Witness ==
    \E t \in Receivers, u \in Receivers :
        /\ pc[t] = "pong"
        /\ mutexWrite = t
        /\ pc[u] = "read"
        /\ mutexRead = u

\* The thread is inside the underlying receiveFrame.
InRead(t) == pc[t] = "read"

\* C14: at most one thread is inside the underlying frame read at any time.
C14_OneReaderAtATime ==
    \A t \in Threads, u \in Threads : (t # u /\ InRead(t)) => ~InRead(u)

\* One receive is inside the underlying read while another waits for the
\* read lock.
C14_Witness ==
    \E t \in Receivers, u \in Receivers :
        /\ InRead(t)
        /\ mutexRead = t
        /\ pc[u] = "lockRead"

\* C15: every underlying read a receive performs finds a frame available, so
\* no call waits inside the read while it holds the read lock.
C15_ReadFindsFrame ==
    \A t \in Receivers : InRead(t) => inbox # <<>>

\* A send that waits for the write lock waits only for a thread that is inside
\* an underlying write, never for one that polls or reads; once it has the
\* lock its writes can be made.
SendNotHeldUpByReceive(t) ==
    /\ pc[t] = "lockWrite" =>
        (ENABLED LockWrite(t) \/ \E u \in Threads \ {t} : InWrite(u))
    /\ pc[t] = "preamble" => ENABLED (\E r \in AllResults : Preamble(t, r))
    /\ pc[t] = "payload" => ENABLED (\E r \in AllResults : Payload(t, r))

\* A receive can poll whatever the sends do, and waits for the read lock only
\* while another receive is inside the underlying read.
ReceiveNotHeldUpBySend(t) ==
    /\ pc[t] = "poll" => ENABLED Poll(t)
    /\ pc[t] = "lockRead" =>
        (ENABLED LockRead(t) \/ \E u \in Receivers \ {t} : InRead(u))

\* C16 as claimed: a receive that polls or reads never holds up a send, and a
\* send never holds up a receive, not even one that has just read a PING.
C16_NeverHoldsUpOther ==
    /\ \A t \in Senders : SendNotHeldUpByReceive(t)
    /\ \A t \in Receivers :
        /\ ReceiveNotHeldUpBySend(t)
        /\ pc[t] = "lockPong" =>
            (ENABLED LockPong(t) \/ \E u \in Receivers \ {t} : InWrite(u))

\* C16, amended: as claimed, except that a receive that has just read a PING
\* waits for the write lock while another thread, a send included, is inside
\* an underlying write under it.
C16_IndependentButForEcho ==
    /\ \A t \in Senders : SendNotHeldUpByReceive(t)
    /\ \A t \in Receivers :
        /\ ReceiveNotHeldUpBySend(t)
        /\ pc[t] = "lockPong" =>
            (ENABLED LockPong(t) \/ \E u \in Threads \ {t} : InWrite(u) /\ mutexWrite = u)
        /\ pc[t] = "pong" => ENABLED (\E r \in AllResults : Pong(t, r))

\* A receive that has just read a PING waits for the write lock that a send
\* holds for its write.
C16_Witness ==
    \E t \in Receivers, u \in Senders :
        /\ pc[t] = "lockPong"
        /\ mutexWrite = u
        /\ InWrite(u)

\* "nextmessage: size=1500" as ASCII codes.
Text1500 ==
    <<110, 101, 120, 116, 109, 101, 115, 115, 97, 103, 101, 58, 32,
      115, 105, 122, 101, 61, 49, 53, 48, 48>>

\* The scenario's send has made exactly two underlying writes, the preamble
\* text with the length size and then the 1500-byte payload, and returned 1500.
TwoWrites(t, size) ==
    /\ Len(hist[t]) = 2
    /\ hist[t][1].ev = "write"
    /\ hist[t][1].data = Text1500
    /\ hist[t][1].n = size
    /\ hist[t][2].ev = "write"
    /\ hist[t][2].n = 1500
    /\ hist[t][2].fl = FRAME_TEXT
    /\ ret[t] = 1500
    /\ LET mine == SelectSeq(wire, LAMBDA w : w.by = t)
       IN /\ Len(mine) = 2
          /\ mine[1].role = "preamble" /\ mine[1].data = Text1500 /\ mine[1].len = size
          /\ mine[2].role = "payload" /\ mine[2].len = 1500

\* C17 as claimed: with threshold 1000 and full writes, send(buf, 1500, TEXT)
\* writes "nextmessage: size=1500" with a length of 23 bytes, then the
\* 1500-byte payload, and returns 1500.
C17_Preamble23Bytes ==
    /\ LARGE_MESSAGE_SIZE = 1000
    /\ Returned(ScenarioSender) => TwoWrites(ScenarioSender, 23)

\* C17, amended: the same with the preamble's length of 22 bytes.
C17_Preamble22Bytes ==
    /\ LARGE_MESSAGE_SIZE = 1000
    /\ Len(hist[ScenarioSender]) <= 2
    /\ Returned(ScenarioSender) => TwoWrites(ScenarioSender, 22)

\* The send of 1500 bytes has returned, and another thread has written a
\* frame as well.
C17_Witness ==
    /\ Returned(ScenarioSender)
    /\ ret[ScenarioSender] = 1500
    /\ Len(wire) > 2

\* The thread waits for one of the two locks.
WaitsForLock(t) == pc[t] \in {"lockRead", "lockWrite", "lockPong"}

\* C18: when every underlying call returns, there is no state in which a thread
\* waits for a lock and no thread can take a step; a receive that waits for the
\* write lock to echo a PING gets it in the end.
C18_NoDeadlock ==
    /\ []((\E t \in Threads : WaitsForLock(t)) => \E u \in Threads : ENABLED ThreadStep(u))
    /\ \A t \in Threads : (pc[t] = "lockPong") ~> (pc[t] # "lockPong")

\* An echo waits for the write lock while another receive writes its echo.
C18_Witness ==
    \E t \in Receivers, u \in Receivers :
        /\ pc[t] = "lockPong"
        /\ pc[u] = "pong"
        /\ mutexWrite = u

\* The ways a receive returns: -1 after a poll that was not readable, the count
\* of a read whose frame is neither PING nor PONG, or -1 after a short echo.
ReturnState(t) ==
    /\ hist[t] # <<>>
    /\ LET e == hist[t][Len(hist[t])] IN
        \/ e.ev = "poll" /\ e.res = 0 /\ ret[t] = -1
        \/ e.ev = "read" /\ ~Control(e.fl) /\ ret[t] = e.n
        \/ e.ev = "write" /\ e.res # e.n /\ ret[t] = -1

\* After a complete echo and after a PONG the call polls again.
BackToPolling(t) ==
    \A i \in Events(t) :
        (\/ hist[t][i].ev = "write" /\ hist[t][i].res = hist[t][i].n
         \/ hist[t][i].ev = "read" /\ Opcode(hist[t][i].fl) = FRAME_OP_PONG) =>
            IF IsLast(t, i) THEN pc[t] = "poll" ELSE hist[t][i + 1].ev = "poll"

\* C19: under fair scheduling, when every underlying call returns, every
\* receive call returns in the end, in one of its three ways; after a complete
\* PING echo or a PONG it polls again and does not return.
C19_ReceiveReturns ==
    /\ \A t \in Threads : (kind[t] = "recv") ~> Returned(t)
    /\ [](\A t \in Receivers :
            /\ Returned(t) => ReturnState(t)
            /\ BackToPolling(t))

\* A receive has echoed a PING, swallowed a PONG, polled again and returned -1.
C19_Witness ==
    \E t \in Receivers :
        /\ Returned(t)
        /\ Len(hist[t]) = 6
        /\ hist[t][3].ev = "write"
        /\ Opcode(hist[t][5].fl) = FRAME_OP_PONG
        /\ ret[t] = -1

\* C20: a thread whose send or receive call has returned, by whichever path,
\* holds neither lock; a held lock is held by a thread that is inside a call.
C20_ReturnedHoldsNoLock ==
    /\ \A t \in Threads : Returned(t) => mutexRead # t /\ mutexWrite # t
    /\ mutexRead # Free => mutexRead \in Threads /\ ~Returned(mutexRead)
    /\ mutexWrite # Free => mutexWrite \in Threads /\ ~Returned(mutexWrite)

\* A receive has returned -1 after a short echo, a send has returned -1 after a
\* failed preamble, and both locks are free.
C20_Witness ==
    /\ \E t \in Receivers :
        /\ Returned(t)
        /\ ret[t] = -1
        /\ hist[t][Len(hist[t])].ev = "write"
    /\ \E u \in Senders :
        /\ Returned(u)
        /\ ret[u] = -1
        /\ WrittenBy(u, "preamble") # {}
        /\ WrittenBy(u, "payload") = {}
    /\ mutexRead = Free
    /\ mutexWrite = Free

====
